---- MODULE Spec2Model ----
(***************************************************************************)
(* Replay playback cursor and debug-vector pool of the Matrix-SMT visual   *)
(* debugger: ReplayPlayer (Libraries/ReplayPlayer.py) driven by the        *)
(* MainWindow handlers (main.py).  Every handler runs to completion on the *)
(* single GUI thread, so one action is one handler, including the slots    *)
(* that the progress slider's valueChanged signal calls synchronously      *)
(* while the handler runs.                                                 *)
(*                                                                         *)
(* The progress slider is a QSlider: setValue and setMaximum bound the     *)
(* value to the range, setMaximum below the minimum lowers the minimum,    *)
(* and a changed value emits valueChanged before the call returns.  An     *)
(* exception that leaves a handler is not caught anywhere: the variable    *)
(* raised records it and no handler runs afterwards.  Handlers that touch  *)
(* none of the variables (update_speed, the object list, a cancelled file  *)
(* dialog) have no action.                                                 *)
(*                                                                         *)
(* The constructors of MatrixTransform (Libraries/Transform.py) are        *)
(* modelled on their own, as functions of their arguments, under           *)
(* SpecTransform; the handlers keep a transform as the index of the        *)
(* command or frame it was computed from.  SpecPlay adds the fairness of   *)
(* the running animation timer.                                            *)
(***************************************************************************)
EXTENDS Integers, Sequences, FiniteSets, TLC

\* Bounds of the model.
MaxFrames == 3
MaxCmds == 1
MaxLoads == 2
MaxCoord == 1

\* Program constants.
PoolSize == 50
SliderInitMax == 100

\* Object ids used by the documents of the model, and the id of the floor
\* plane that instatiate_geometry always registers.
ObjIds == {1}
OriginId == 0 - 1

\* The pose of an actor no state has been applied to.
NoPose == 0 - 1

VARIABLES
    objects,           \* ReplayPlayer.objects: ids of the object descriptors
    frames,            \* ReplayPlayer.frames: <<>> also stands for None
    current_frame,     \* ReplayPlayer.current_frame
    number_of_frames,  \* ReplayPlayer.number_of_frames
    is_playing,        \* ReplayPlayer.is_playing
    direction,         \* ReplayPlayer.direction
    geometry,          \* MainWindow.geometry: id -> visibility and pose
    vectors,           \* len(MainWindow.vectors): the arrows are 0..vectors-1
    visible,           \* the arrows whose actor.visibility is True
    transform,         \* arrow -> the command whose transform its actor holds
    current_vector,    \* MainWindow.current_vector
    progress_slider,   \* minimum, maximum and value of the progress slider
    animation_timer,   \* whether the animation timer is running
    raised,            \* a handler raised: the application has terminated
    last_op,           \* history: the handler that ran last
    run_stp,           \* history: argument of the present run of step_animation
    run_start,         \* history: current_frame before that run
    run_len,           \* history: number of step_animation calls of that run
    timer_phase,       \* history: flips at every timeout of the running timer
    builder            \* a call of a MatrixTransform constructor and its result

vars == <<objects, frames, current_frame, number_of_frames, is_playing,
          direction, geometry, vectors, visible, transform, current_vector,
          progress_slider, animation_timer, raised, last_op, run_stp, run_start, run_len,
          timer_phase, builder>>

----------------------------------------------------------------------------
\* Documents.  A frame holds its states list and the number of its "v"
\* commands; the k-th command of a frame is identified by k.

\* The keys update_display reads from an object state besides "id".
StateKeys == {"p", "r", "i", "m"}

\* An object state: keys are the keys the dict has, i its visibility flag
\* and p the value of its position, rotation and metadata, which the state
\* loop copies together.  The rotations are such that set_transform returns.
ObjectState(id, keys, flag, p) == [id |-> id, keys |-> keys, i |-> flag, p |-> p]

\* Frame i (counted from 0) of a document: it lists object 1 as visible with
\* pose i or lists nothing, and the numbers of commands of successive frames
\* run 1, 2, .., MaxCmds, 0, 1, ..
Frame(i, listed) ==
    [states |-> IF listed THEN <<ObjectState(1, StateKeys, "i", i)>> ELSE <<>>,
     cmd    |-> (i + 1) % (MaxCmds + 1)]

\* Documents with an objects list and 0..MaxFrames frames of that kind.
PlainDocs ==
    { [objects |-> o,
       frames  |-> [i \in 1..n |-> Frame(i - 1, listed)]] :
        o \in SUBSET ObjIds, n \in 0..MaxFrames, listed \in BOOLEAN }

\* A frame with one command more than a pool of PoolSize arrows holds, and
\* the documents that show it first or reach it from another frame.
CrowdedFrame == [states |-> <<>>, cmd |-> PoolSize + 1]

CrowdedDocs ==
    { [objects |-> {}, frames |-> <<CrowdedFrame>>],
      [objects |-> {}, frames |-> <<Frame(0, FALSE), CrowdedFrame>>] }

\* Frame i of a document whose odd frames list no object and whose even
\* frames list object 1, by turns visible and not.
SparseFrame(i) ==
    [states |-> IF i % 2 = 0
                THEN <<ObjectState(1, StateKeys, IF i % 4 = 0 THEN "i" ELSE "h", i)>>
                ELSE <<>>,
     cmd    |-> 0]

SparseDocs ==
    { [objects |-> {1}, frames |-> [i \in 1..n |-> SparseFrame(i - 1)]] :
        n \in 2..MaxFrames }

\* Documents whose second frame holds a state without the key "p" or
\* without the key "m".
DefectiveDocs ==
    { [objects |-> {1},
       frames  |-> <<Frame(0, FALSE),
                     [states |-> <<ObjectState(1, StateKeys \ {k}, "i", 1)>>,
                      cmd    |-> 1]>>] : k \in {"p", "m"} }

\* The documents a file can hold.
Docs == PlainDocs \cup CrowdedDocs \cup SparseDocs \cup DefectiveDocs

----------------------------------------------------------------------------
\* Python helpers.

\* seq[i] of a Python list is defined for -len <= i < len.
PyIndexOk(seq, i) == (0 - Len(seq)) <= i /\ i < Len(seq)

PyIndex(seq, i) == IF i < 0 THEN seq[Len(seq) + i + 1] ELSE seq[i + 1]

\* numpy.sign
Sign(x) == IF x > 0 THEN 1 ELSE IF x < 0 THEN 0 - 1 ELSE 0

\* An exception leaves the handler; the state keeps what was written so far.
Raise(s) == [s EXCEPT !.raised = TRUE]

----------------------------------------------------------------------------
\* ReplayPlayer.

load_replay(s, d) ==
    [s EXCEPT !.frames = d.frames,
              !.objects = d.objects,
              !.current_frame = 0,
              !.number_of_frames = Len(d.frames)]

\* The ways load_replay fails: "io" is a file that open() or loads() rejects,
\* "frames" a document whose "frames" field is null or a number.
Faults == {"io", "frames"}

\* load_replay on such a file, whose "objects" field holds the ids o.  open()
\* and loads() raise before any field is assigned.  A "frames" that is no
\* sequence is assigned as it is (<<>> stands for it), objects and
\* current_frame are assigned, and len(self.frames) raises TypeError before
\* number_of_frames is assigned.  Nothing catches either exception.
load_replay_failing(s, o, fault) ==
    IF fault = "io" THEN Raise(s)
    ELSE Raise([s EXCEPT !.frames = <<>>, !.objects = o, !.current_frame = 0])

\* "if not self.frames: return None"
HasFrameData(s) == s.frames # <<>>

get_current_frame_data(s) == PyIndex(s.frames, s.current_frame)

\* Variants of StepWrap that do not wrap: the cursor stops at the ends, or
\* falls back to frame 0 when it leaves the range.
StepClamp(s) ==
    LET max_frame == Len(s.frames) - 1
        n == s.current_frame + s.direction
    IN  [s EXCEPT !.current_frame =
                      IF n > max_frame THEN max_frame ELSE IF n < 0 THEN 0 ELSE n]

StepResetToZero(s) ==
    LET max_frame == Len(s.frames) - 1
        n == s.current_frame + s.direction
    IN  [s EXCEPT !.current_frame = IF n > max_frame \/ n < 0 THEN 0 ELSE n]

StepWrap(s) ==
    LET max_frame == Len(s.frames) - 1
    IN  [s EXCEPT !.current_frame =
                      (s.current_frame + s.direction) % (max_frame + 1)]

step(s) == IF s.frames = <<>> THEN s ELSE StepWrap(s)

----------------------------------------------------------------------------
\* MainWindow: vector pool, progress slider, display.

\* Variant of hide_debug_geometry that resets the cursor and hides nothing.
hide_debug_geometry_cursor_only(s) == [s EXCEPT !.current_vector = 0]

\* A hide_debug_geometry that also hides every object and drops its pose.
hide_debug_geometry_and_objects(s) ==
    [s EXCEPT !.visible = {}, !.current_vector = 0,
              !.geometry = [id \in DOMAIN s.geometry |->
                               [visibility |-> FALSE, pose |-> NoPose]]]

hide_debug_geometry(s) ==
    [s EXCEPT !.visible = {}, !.current_vector = 0]

\* The state loop of update_display.  self.geometry[state["id"]] raises
\* KeyError for an id that is no key of the dict, and state['p'], state['r'],
\* state["i"] and state["m"] raise KeyError for a key the state lacks: the
\* first three before the actor is touched, the last after its visibility
\* is set.  The visibility is the flag, but False on the frame whose index
\* is len(frames) - 1.
RECURSIVE ApplyStates(_, _)
ApplyStates(s, states) ==
    IF states = <<>> THEN s
    ELSE LET state == Head(states)
         IN  IF state.id \notin DOMAIN s.geometry THEN Raise(s)
             ELSE IF ~({"p", "r", "i"} \subseteq state.keys) THEN Raise(s)
             ELSE LET vis == state.i = "i" /\ s.current_frame # Len(s.frames) - 1
                      flagged == [s EXCEPT !.geometry[state.id].visibility = vis]
                  IN  IF "m" \notin state.keys THEN Raise(flagged)
                      ELSE ApplyStates([flagged EXCEPT !.geometry[state.id].pose = state.p],
                                       Tail(states))

\* The command loop of update_display, commands k..n of the frame:
\* self.vectors[self.current_vector] raises IndexError on an empty pool.
RECURSIVE ApplyCommands(_, _, _)
ApplyCommands(s, k, n) ==
    IF k > n THEN s
    ELSE IF s.current_vector >= s.vectors THEN Raise(s)
    ELSE LET vector == s.current_vector
             shown == [s EXCEPT !.transform = (vector :> k) @@ s.transform,
                                !.visible = s.visible \cup {vector}]
             nxt == IF s.current_vector < s.vectors - 1
                    THEN [shown EXCEPT !.current_vector = @ + 1]
                    ELSE shown
         IN  ApplyCommands(nxt, k + 1, n)

RECURSIVE update_display(_)

seek_animation(s, value) ==
    update_display([s EXCEPT !.current_frame = value])

SliderBound(sl, v) ==
    IF v < sl.minimum THEN sl.minimum
    ELSE IF v > sl.maximum THEN sl.maximum
    ELSE v

\* progress_slider.setValue(v): the value is bounded to the range, and a
\* changed value emits valueChanged, which is connected to seek_animation.
SliderSetValue(s, v) ==
    LET b == SliderBound(s.progress_slider, v)
    IN  IF s.progress_slider.value = b THEN s
        ELSE seek_animation([s EXCEPT !.progress_slider.value = b], b)

\* progress_slider.setMaximum(m): the range becomes [min(minimum, m), m] and
\* the value is bounded to the new range.
SliderSetMaximum(s, m) ==
    LET sl == s.progress_slider
        mn == IF m < sl.minimum THEN m ELSE sl.minimum
    IN  IF mn = sl.minimum /\ m = sl.maximum THEN s
        ELSE SliderSetValue(
                 [s EXCEPT !.progress_slider.minimum = mn,
                           !.progress_slider.maximum = m],
                 sl.value)

update_display(s) ==
    LET h == hide_debug_geometry(s)
    IN  IF ~HasFrameData(h) THEN h
        ELSE IF ~PyIndexOk(h.frames, h.current_frame) THEN Raise(h)
        ELSE LET frame_data == get_current_frame_data(h)
                 a == SliderSetValue(h, h.current_frame)
             IN  IF a.raised THEN a
                 ELSE LET b == ApplyStates(a, frame_data.states)
                      IN  IF b.raised THEN b
                          ELSE ApplyCommands(b, 1, frame_data.cmd)

\* instatiate_geometry: the dict is cleared and filled with the origin plane
\* and one hidden actor per object; 50 arrows are appended to self.vectors,
\* which is not cleared.
instatiate_geometry(s) ==
    [s EXCEPT !.geometry = [id \in {OriginId} \cup s.objects |->
                               [visibility |-> id = OriginId, pose |-> NoPose]],
              !.vectors = s.vectors + PoolSize]

open_animation_file(s, d) ==
    LET l == load_replay(s, d)
        m == SliderSetMaximum(l, Len(l.frames) - 1)
    IN  IF m.raised THEN m
        ELSE update_display(instatiate_geometry(m))

\* open_animation_file when load_replay raises: the exception leaves the
\* handler, the slider, the geometry and the display are not touched.
open_animation_file_failing(s, o, fault) == load_replay_failing(s, o, fault)

toggle_play(s) ==
    [s EXCEPT !.is_playing = ~s.is_playing,
              !.animation_timer = ~s.is_playing]

toggle_direction(s) == [s EXCEPT !.direction = s.direction * (0 - 1)]

\* Variant of step_animation that steps relative to the direction in force.
step_animation_relative(s, stp) ==
    update_display(step([s EXCEPT !.direction = s.direction * Sign(stp)]))

step_animation(s, stp) ==
    update_display(step([s EXCEPT !.direction = Sign(stp)]))

\* Variant of update_animation without the is_playing test.
update_animation_unguarded(s) == update_display(step(s))

update_animation(s) ==
    IF s.is_playing THEN update_display(step(s)) ELSE s

----------------------------------------------------------------------------
\* Libraries/Transform.py.  Coordinates are integers; a square root is kept
\* as the number under the root.  A transform is the sequence of the
\* operations appended to the vtkTransform, which is in PostMultiply mode:
\* each operation acts after the ones appended before it.

Dot(a, b) == a[1] * b[1] + a[2] * b[2] + a[3] * b[3]

Cross(a, b) ==
    <<a[2] * b[3] - a[3] * b[2], a[3] * b[1] - a[1] * b[3], a[1] * b[2] - a[2] * b[1]>>

NormSq(a) == Dot(a, a)

\* transform.Scale(1, magnitude, 1), with msq the square of magnitude.
Scale(msq) == [op |-> "Scale", v |-> <<msq>>]

\* transform.RotateWXYZ(angle_deg, *axis): axis is a vector along the unit
\* axis; angle identifies the angle, see the constructors.
RotateWXYZ(angle, axis) == [op |-> "RotateWXYZ", v |-> <<angle, axis>>]

\* transform.Translate(position)
Translate(position) == [op |-> "Translate", v |-> <<position>>]

\* to_axis_angle.  angle_rad = 2 * atan2(sqrt(vsq), qw) is 0 exactly when
\* vsq = 0 and qw >= 0 (atan2(0.0, qw) is pi for qw < 0); it is identified
\* by <<vsq, qw>>.  With vsq = 0 and qw < 0 the angle is 2 pi, norm is 0.0
\* and qx / norm raises ZeroDivisionError.
to_axis_angle(rotation) ==
    LET qx == rotation[1]
        qy == rotation[2]
        qz == rotation[3]
        qw == rotation[4]
        vsq == qx * qx + qy * qy + qz * qz
    IN  IF vsq = 0 /\ qw >= 0
        THEN [raised |-> FALSE, zero |-> TRUE, angle |-> <<0, qw>>, axis |-> <<1, 0, 0>>]
        ELSE IF vsq = 0
        THEN [raised |-> TRUE, zero |-> FALSE, angle |-> <<0, qw>>, axis |-> <<>>]
        ELSE [raised |-> FALSE, zero |-> FALSE, angle |-> <<vsq, qw>>,
              axis |-> <<qx, qy, qz>>]

\* set_transform: the exception of to_axis_angle is not caught.
set_transform(position, rotation) ==
    LET aa == to_axis_angle(rotation)
    IN  IF aa.raised THEN [raised |-> TRUE, ops |-> <<>>]
        ELSE [raised |-> FALSE,
              ops |-> (IF ~aa.zero THEN <<RotateWXYZ(aa.angle, aa.axis)>> ELSE <<>>)
                      \o <<Translate(position)>>]

default_direction == <<0, 1, 0>>

\* set_transform_from_vector, vec being its argument direction.  An angle is identified by <<num, densq>>: it
\* is the angle of 0..180 degrees whose cosine is num / sqrt(densq).  A
\* direction of magnitude 0 is replaced by (0, 0, 1).  np.allclose of the
\* normalised direction and (0, 1, 0) holds, for integer coordinates of this
\* size, exactly when the direction is a positive multiple of (0, 1, 0).
set_transform_from_vector(position, vec) ==
    LET msq == NormSq(vec)
        dir == IF msq = 0 THEN <<0, 0, 1>> ELSE vec
        dsq == NormSq(dir)
        cross == Cross(default_direction, dir)
    IN  IF dir[1] = 0 /\ dir[3] = 0 /\ dir[2] > 0
        THEN [raised |-> FALSE, ops |-> <<Scale(msq), Translate(position)>>]
        ELSE IF NormSq(cross) = 0
        THEN [raised |-> FALSE,
              ops |-> <<Scale(msq), RotateWXYZ(<<0 - 1, 1>>, <<0, 1, 0>>),
                        Translate(position)>>]
        ELSE [raised |-> FALSE,
              ops |-> <<Scale(msq),
                        RotateWXYZ(<<Dot(default_direction, dir), dsq>>, cross),
                        Translate(position)>>]

----------------------------------------------------------------------------
\* The state machine.

State ==
    [objects |-> objects, frames |-> frames, current_frame |-> current_frame,
     number_of_frames |-> number_of_frames, is_playing |-> is_playing,
     direction |-> direction, geometry |-> geometry, vectors |-> vectors,
     visible |-> visible, transform |-> transform,
     current_vector |-> current_vector, progress_slider |-> progress_slider,
     animation_timer |-> animation_timer, raised |-> raised]

Install(t) ==
    /\ objects' = t.objects
    /\ frames' = t.frames
    /\ current_frame' = t.current_frame
    /\ number_of_frames' = t.number_of_frames
    /\ is_playing' = t.is_playing
    /\ direction' = t.direction
    /\ geometry' = t.geometry
    /\ vectors' = t.vectors
    /\ visible' = t.visible
    /\ transform' = t.transform
    /\ current_vector' = t.current_vector
    /\ progress_slider' = t.progress_slider
    /\ animation_timer' = t.animation_timer
    /\ raised' = t.raised
    /\ builder' = builder

\* History of a handler other than step_animation.
NoRun(op) == last_op' = op /\ run_stp' = 0 /\ run_start' = 0 /\ run_len' = 0

\* History of the animation timer: a handler other than update_animation
\* runs, the running timer times out, or toggle_play starts or stops it.
NoTimeout == timer_phase' = timer_phase

Timeout == timer_phase' = 1 - timer_phase

TimerReset == timer_phase' = 0

\* No constructor call is under study.
NoCall == [fn |-> "none", position |-> <<>>, arg |-> <<>>, done |-> FALSE,
           raised |-> FALSE, ops |-> <<>>]

InitMainWindow ==
    /\ objects = {}
    /\ frames = <<>>
    /\ current_frame = 0
    /\ number_of_frames = 0
    /\ is_playing = FALSE
    /\ direction = 1
    /\ geometry = <<>>
    /\ vectors = 0
    /\ visible = {}
    /\ transform = <<>>
    /\ current_vector = 0
    /\ progress_slider = [minimum |-> 0, maximum |-> SliderInitMax, value |-> 0]
    /\ animation_timer = FALSE
    /\ raised = FALSE
    /\ last_op = "init"
    /\ run_stp = 0
    /\ run_start = 0
    /\ run_len = 0
    /\ timer_phase = 0

Init == InitMainWindow /\ builder = NoCall

\* "Open record" with a file holding document d.
OpenAnimationFile ==
    /\ ~raised
    /\ vectors < MaxLoads * PoolSize
    /\ \E d \in Docs : Install(open_animation_file(State, d))
    /\ NoRun("open")
    /\ NoTimeout

\* The user picks a file that load_replay cannot load.
OpenFailingFile ==
    /\ ~raised
    /\ \E o \in SUBSET ObjIds, fault \in Faults :
           Install(open_animation_file_failing(State, o, fault))
    /\ NoRun("open_failed")
    /\ NoTimeout

TogglePlay ==
    /\ ~raised
    /\ Install(toggle_play(State))
    /\ NoRun("toggle_play")
    /\ TimerReset

ToggleDirection ==
    /\ ~raised
    /\ Install(toggle_direction(State))
    /\ NoRun("toggle_direction")
    /\ NoTimeout

\* "< Step" (stp = -1) and "Step >" (stp = 1).
StepAnimation(stp) ==
    /\ ~raised
    /\ NoTimeout
    /\ LET t == step_animation(State, stp)
       IN  /\ Install(t)
           /\ IF t.raised \/ frames = <<>>
              THEN NoRun("step")
              ELSE /\ last_op' = "step"
                   /\ run_stp' = stp
                   /\ IF run_stp # stp \/ run_len >= Len(frames)
                      THEN run_start' = current_frame /\ run_len' = 1
                      ELSE run_start' = run_start /\ run_len' = run_len + 1

\* A timeout of the animation timer.  The action does not rely on the timer
\* being stopped while is_playing is false: update_animation tests the flag.
UpdateAnimation ==
    /\ ~raised
    /\ Install(update_animation(State))
    /\ NoRun(IF is_playing THEN "tick" ELSE "idle_tick")
    /\ IF animation_timer THEN Timeout ELSE NoTimeout

\* The user moves the progress slider to v: valueChanged(v).
ProgressSliderMoved ==
    /\ ~raised
    /\ \E v \in progress_slider.minimum..progress_slider.maximum :
           /\ v # progress_slider.value
           /\ Install(SliderSetValue(State, v))
    /\ NoRun("seek")
    /\ NoTimeout

Next ==
    \/ OpenAnimationFile
    \/ OpenFailingFile
    \/ ProgressSliderMoved
    \/ \E stp \in {0 - 1, 1} : StepAnimation(stp)
    \/ UpdateAnimation
    \/ TogglePlay
    \/ ToggleDirection

Spec == Init /\ [][Next]_vars

\* The transform constructors on their own: a call with arguments from
\* bounded sets, then its result.
Coords == (0 - MaxCoord)..MaxCoord

Vectors3 == Coords \X Coords \X Coords

Quaternions == Coords \X Coords \X Coords \X Coords

Positions == {<<0, 0, 0>>, <<1, 2, 3>>}

Calls ==
    { [fn |-> "set_transform", position |-> p, arg |-> q, done |-> FALSE,
       raised |-> FALSE, ops |-> <<>>] : p \in Positions, q \in Quaternions }
    \cup
    { [fn |-> "set_transform_from_vector", position |-> p, arg |-> d, done |-> FALSE,
       raised |-> FALSE, ops |-> <<>>] : p \in Positions, d \in Vectors3 }

InitTransform == InitMainWindow /\ builder \in Calls

Returned(r) == [builder EXCEPT !.done = TRUE, !.raised = r.raised, !.ops = r.ops]

SetTransform ==
    /\ builder.fn = "set_transform" /\ ~builder.done
    /\ builder' = Returned(set_transform(builder.position, builder.arg))
    /\ UNCHANGED <<objects, frames, current_frame, number_of_frames, is_playing,
                   direction, geometry, vectors, visible, transform, current_vector,
                   progress_slider, animation_timer, raised, last_op, run_stp,
                   run_start, run_len, timer_phase>>

SetTransformFromVector ==
    /\ builder.fn = "set_transform_from_vector" /\ ~builder.done
    /\ builder' = Returned(set_transform_from_vector(builder.position, builder.arg))
    /\ UNCHANGED <<objects, frames, current_frame, number_of_frames, is_playing,
                   direction, geometry, vectors, visible, transform, current_vector,
                   progress_slider, animation_timer, raised, last_op, run_stp,
                   run_start, run_len, timer_phase>>

NextTransform == SetTransform \/ SetTransformFromVector

SpecTransform == InitTransform /\ [][NextTransform]_vars

\* The animation timer, once started by toggle_play, fires update_animation
\* again and again until it is stopped.
TimerFires == animation_timer /\ ~raised /\ Timeout

SpecPlay == Init /\ [][Next]_vars /\ WF_timer_phase(TimerFires)

----------------------------------------------------------------------------
TypeOK ==
    /\ objects \subseteq ObjIds
    /\ DOMAIN geometry \subseteq {OriginId} \cup ObjIds
    /\ \A id \in DOMAIN geometry :
           geometry[id].visibility \in BOOLEAN /\ geometry[id].pose \in NoPose..MaxFrames
    /\ current_frame \in Int
    /\ ~raised => number_of_frames = Len(frames)
    /\ is_playing \in BOOLEAN
    /\ direction \in {0 - 1, 1}
    /\ current_vector \in 0..vectors
    /\ visible \subseteq 0..(vectors - 1)
    /\ DOMAIN transform \subseteq 0..(vectors - 1)
    /\ raised \in BOOLEAN
    /\ timer_phase \in {0, 1}
    /\ ~animation_timer => timer_phase = 0
    /\ animation_timer = is_playing

----------------------------------------------------------------------------
\* Properties.

FrameCount == Len(frames)

\* The frame on display, where there is one.
Displayable == frames # <<>> /\ PyIndexOk(frames, current_frame)
CurrentCmds == PyIndex(frames, current_frame).cmd

\* The last handler displayed the current frame by a seek, a step or a tick.
Displayed == ~raised /\ last_op \in {"seek", "step", "tick"} /\ Displayable

\* C1 as stated: with F > 0 frames a step by delta in {+1, -1} moves the
\* cursor to (current_frame + delta * direction) mod F, direction being the
\* direction before the step, and the result is in 0..F-1.
C1_StepFollowsDirection ==
    [][\A stp \in {0 - 1, 1} :
          (frames # <<>> /\ StepAnimation(stp)) =>
              /\ current_frame' = (current_frame + stp * direction) % FrameCount
              /\ current_frame' \in 0..(FrameCount - 1)]_vars

\* C1 amended: with F > 0 frames a step by delta in {+1, -1} moves the cursor
\* to (current_frame + delta) mod F whatever the direction was before the
\* step, sets the direction to delta, and the result is in 0..F-1.
C1_StepIsAbsolute ==
    [][\A stp \in {0 - 1, 1} :
          (frames # <<>> /\ StepAnimation(stp)) =>
              /\ current_frame' = (current_frame + stp) % FrameCount
              /\ current_frame' \in 0..(FrameCount - 1)
              /\ direction' = stp]_vars

\* Two steps back from frame 0 of three frames: the second one was taken with
\* direction -1 in force and went from frame 2 to frame 1.
C1_Witness ==
    /\ last_op = "step" /\ ~raised
    /\ FrameCount = 3 /\ run_stp = 0 - 1 /\ run_len = 2
    /\ run_start = 0 /\ current_frame = 1 /\ direction = 0 - 1

\* C2: with F > 0 frames and the cursor on a frame k in 0..F-1, F calls of
\* step(+1) in a row, nothing in between, leave the cursor on frame k.
C2_FullCycleReturns ==
    (/\ last_op = "step" /\ frames # <<>>
     /\ run_stp = 1 /\ run_len = FrameCount
     /\ run_start \in 0..(FrameCount - 1))
        => current_frame = run_start

C2_Witness ==
    /\ last_op = "step" /\ ~raised
    /\ FrameCount = 3 /\ run_stp = 1 /\ run_len = 3
    /\ run_start = 1 /\ current_frame = 1

\* C3: with F > 0 frames, step(-1) on frame 0 moves the cursor to frame F-1
\* and step(+1) on frame F-1 moves it to frame 0.
C3_WrapsAtBothEnds ==
    [][frames # <<>> =>
          /\ (current_frame = 0 /\ StepAnimation(0 - 1))
                 => current_frame' = FrameCount - 1
          /\ (current_frame = FrameCount - 1 /\ StepAnimation(1))
                 => current_frame' = 0]_vars

C3_Witness ==
    /\ last_op = "step" /\ ~raised
    /\ FrameCount >= 2 /\ run_stp = 0 - 1 /\ run_len = 1
    /\ run_start = 0 /\ current_frame = FrameCount - 1

\* C4: in every reachable state the document has no frame (or none is
\* loaded) or 0 <= current_frame <= frame_count - 1.
C4_FrameInRange ==
    frames = <<>> \/
        (0 <= current_frame /\ current_frame <= number_of_frames - 1)

\* C5: when a load has completed, current_frame = 0, direction = +1 and
\* is_playing = false, whatever the cursor and the slider were before it.
C5_LoadResetsCursor ==
    (last_op = "open" /\ ~raised) =>
        (current_frame = 0 /\ direction = 1 /\ is_playing = FALSE)

\* C6: with no frame (or no document) step, seek and tick are no-ops: none
\* of them changes current_frame.
C6_EmptyNavigationIsNoOp ==
    [][(/\ frames = <<>>
        /\ \/ \E stp \in {0 - 1, 1} : StepAnimation(stp)
           \/ UpdateAnimation
           \/ ProgressSliderMoved)
          => current_frame' = current_frame]_vars

\* C7: toggle_play flips is_playing and leaves current_frame alone; a timer
\* tick while is_playing is false leaves current_frame alone, and a tick
\* while it is true advances the cursor by one step in the direction in force.
C7_OnlyPlayingTicksAdvance ==
    [][/\ TogglePlay =>
              (is_playing' = ~is_playing /\ current_frame' = current_frame)
       /\ (UpdateAnimation /\ ~is_playing) => current_frame' = current_frame
       /\ (UpdateAnimation /\ is_playing /\ frames # <<>>) =>
              current_frame' = (current_frame + direction) % FrameCount]_vars

\* A tick arrived after playback was stopped on a frame other than the first.
C7_Witness ==
    /\ last_op = "idle_tick" /\ ~raised
    /\ ~is_playing /\ ~animation_timer
    /\ frames # <<>> /\ current_frame > 0

\* C8: is_playing is true only when the loaded document has a frame.
C8_PlayingNeedsFrames == is_playing => frames # <<>>

\* C9: when a seek, a step or a tick has displayed a frame with N commands,
\* N at most the size of the pool, exactly N slots are visible, one per
\* command.
C9_OneSlotPerCommand ==
    (Displayed /\ CurrentCmds <= vectors) =>
        /\ visible = 0..(CurrentCmds - 1)
        /\ \A i \in visible : transform[i] = i + 1

\* C10: every display starts by resetting the pool cursor and hiding every
\* slot, so once a handler has completed a visible slot carries a command of
\* the frame on display and the visible slots are those below the cursor; a
\* frame without commands leaves no slot visible.
C10_NoStaleSlot ==
    ~raised =>
        /\ \A i \in visible :
               Displayable /\ transform[i] \in 1..CurrentCmds
        /\ current_vector < vectors - 1 => visible = 0..(current_vector - 1)

\* A frame without commands is on display and a slot used before is hidden.
C10_Witness ==
    /\ Displayed
    /\ CurrentCmds = 0
    /\ visible = {}
    /\ transform # <<>>

\* C11: when the frame on display holds more commands than the pool has
\* slots, the commands beyond the capacity are dropped: slot i still shows the
\* transform of command i + 1, the command it was first assigned to.
C11_OverflowKeepsSlots ==
    (~raised /\ Displayable /\ CurrentCmds > vectors) =>
        \A i \in 0..(vectors - 1) : i \in visible /\ transform[i] = i + 1

\* C12: the pool is created once with PoolSize slots and keeps that size:
\* no load changes the number of slots.
C12_PoolSizeConstant == vectors \in {0, PoolSize}

\* The states list of the frame on display, and the index of that frame
\* counted from the first frame (frames[-1] is the last frame).
CurrentStates == PyIndex(frames, current_frame).states

DisplayedIndex == current_frame % Len(frames)

\* A state with a field-level defect: its id is no key of the geometry dict
\* or it lacks one of the keys the state loop reads.
Defective(state) == state.id \notin DOMAIN geometry \/ ~(StateKeys \subseteq state.keys)

\* C13: displaying a frame never raises on a field-level defect: when the
\* frame on display holds a state with an unknown id or a missing field, no
\* exception has been raised.
C13_DefectNeverRaises ==
    (Displayable /\ \E k \in 1..Len(CurrentStates) : Defective(CurrentStates[k]))
        => ~raised

\* C19: after a frame is displayed every object its states list has the
\* visibility its flag records (i = "i"), but is hidden when the frame is
\* the last frame of the document.
C19_VisibilityFollowsFlag ==
    Displayed =>
        \A k \in 1..Len(CurrentStates) :
            geometry[CurrentStates[k].id].visibility =
                (CurrentStates[k].i = "i" /\ DisplayedIndex # Len(frames) - 1)

\* C15: after a load that fails the document state is Empty: no frames, no
\* objects, cursor 0 and frame count 0, and never a mixture of the document
\* loaded before and the file that failed.
C15_FailedLoadLeavesEmpty ==
    last_op = "open_failed" =>
        frames = <<>> /\ objects = {} /\ current_frame = 0 /\ number_of_frames = 0

\* Playback goes on undisturbed: the program is playing and the handler
\* that ran last is a tick of the timer.
Playing == ~raised /\ is_playing /\ last_op = "tick"

\* C16: playback loops: from every point of an undisturbed playback each
\* frame index k of the document is visited again, unless the playback is
\* disturbed first; so a playback that is never disturbed visits every
\* frame index infinitely often.
C16_PlaybackLoops ==
    \A k \in 0..(MaxFrames - 1) :
        (Playing /\ k < Len(frames)) ~> (~Playing \/ current_frame = k)

\* C16: a tick of the timer has wrapped the cursor from the last frame of a
\* document of more than one frame to frame 0 during playback.
C16_Witness ==
    /\ Playing /\ Len(frames) >= 2
    /\ current_frame = 0 /\ direction = 1

\* The ids the states list of the frame on display names.
ListedIds == { CurrentStates[k].id : k \in 1..Len(CurrentStates) }

\* C20: a seek, step or tick that displays a frame leaves the pose and the
\* visibility of every object the frame does not list as they were.
C20_UnlistedUnchanged ==
    [][ (last_op' \in {"seek", "step", "tick"} /\ ~raised' /\ Displayable')
            => \A id \in DOMAIN geometry :
                   id \notin ListedIds' => geometry'[id] = geometry[id] ]_vars

\* C20: frame 1 of a document that lists object 1 in its frames 0 and 2 only
\* is shown after a seek, with the object in the pose of frame 2.
C20_Witness ==
    /\ Displayed /\ last_op = "seek"
    /\ Len(frames) = 3 /\ current_frame = 1 /\ ListedIds = {}
    /\ 1 \in DOMAIN geometry /\ geometry[1].pose = 2

\* A call of the constructor fn has returned or raised.
Built(fn) == builder.fn = fn /\ builder.done

\* C14: the quaternion decomposition never raises or divides by zero,
\* whatever the quaternion, and for a zero angle (no vector part, qw >= 0)
\* the rotate step is skipped: the transform is the translation alone.
C14_DecompositionNeverRaises ==
    Built("set_transform") =>
        /\ ~builder.raised
        /\ (builder.arg[1] = 0 /\ builder.arg[2] = 0 /\ builder.arg[3] = 0
              /\ builder.arg[4] >= 0)
               => builder.ops = <<Translate(builder.position)>>

\* The image of v under the rotation by 180 degrees about the unit axis a.
HalfTurn(a, v) ==
    LET c == 2 * Dot(a, v)
    IN  <<c * a[1] - v[1], c * a[2] - v[2], c * a[3] - v[3]>>

\* C17: for a direction anti-parallel to (0, 1, 0) the direction transform
\* rotates by 180 degrees about an axis perpendicular to (0, 1, 0), which
\* takes (0, 1, 0) to (0, -1, 0).
C17_AntiParallelHalfTurn ==
    (Built("set_transform_from_vector")
       /\ builder.arg[1] = 0 /\ builder.arg[3] = 0 /\ builder.arg[2] < 0)
        => \E k \in 1..Len(builder.ops) :
               /\ builder.ops[k].op = "RotateWXYZ"
               /\ builder.ops[k].v[1] = <<0 - 1, 1>>
               /\ Dot(builder.ops[k].v[2], default_direction) = 0
               /\ HalfTurn(builder.ops[k].v[2], default_direction) = <<0, 0 - 1, 0>>

\* The place of an operation in the order scale, rotate, translate.
Rank(o) == IF o.op = "Scale" THEN 1 ELSE IF o.op = "RotateWXYZ" THEN 2 ELSE 3

\* C18: every call of either constructor appends its operations in the
\* order scale, rotate, translate, with translate exactly once and last.
C18_ScaleRotateTranslate ==
    builder.done =>
        /\ builder.ops # <<>>
        /\ builder.ops[Len(builder.ops)].op = "Translate"
        /\ \A i, j \in 1..Len(builder.ops) :
               i < j => Rank(builder.ops[i]) < Rank(builder.ops[j])
====
